---- MODULE Spec2Model ----
(***************************************************************************)
(* State-machine model of contracts/WildfireSmokeAnalysis.sol.             *)
(*                                                                         *)
(* A transaction is one atomic step.  A transaction that reverts leaves    *)
(* the contract storage, the oracle and the event log untouched; only the  *)
(* variable `last`, which holds the outcome of the most recent call, is    *)
(* written.                                                                *)
(*                                                                         *)
(* A uint32 is a pair <<hi, lo>> of 16-bit limbs (value hi * 2^16 + lo),   *)
(* so that the arithmetic of euint32 wraps modulo 2^32 as it does in the   *)
(* program.  A ciphertext is a record [kind, val]: `val` is the uint32 it   *)
(* encrypts and `kind` is the operation that produced the handle.          *)
(***************************************************************************)
EXTENDS Integers, Sequences, FiniteSets, Bags, TLC

VARIABLES
    dataCount,          \* uint256 public dataCount
    sensorData,         \* mapping(uint256 => EncryptedSensorData), ids 1..dataCount
    propagationModels,  \* mapping(uint256 => SmokePropagationModel)
    airQualityAlerts,   \* mapping(uint256 => AirQualityAlert)
    locationData,       \* mapping(uint256 => uint256[])
    requestToDataId,    \* mapping(uint256 => uint256)
    decryptionRequests, \* the oracle: ciphertext lists by request, request id r at index r + 1
    events,             \* the emitted events, as a bag
    last                \* outcome of the most recent call

vars == <<dataCount, sensorData, propagationModels, airQualityAlerts,
          locationData, requestToDataId, decryptionRequests, events, last>>

\* everything but `last`: what a reverted transaction leaves untouched
chain == <<dataCount, sensorData, propagationModels, airQualityAlerts,
           locationData, requestToDataId, decryptionRequests, events>>

-----------------------------------------------------------------------------
(* Bounds *)

MaxData == 2            \* uploads in a run, two locations
MaxArithData == 3       \* uploads in a run, one location
MaxRequests == 2        \* decryption requests in a run

Locations == {0, 1}
RequestIds == 0 .. MaxRequests
Agencies == {"agencyA"}
Timestamps == {100}

-----------------------------------------------------------------------------
(* uint32 as two 16-bit limbs *)

Limb == 65536

\* the cast uint32(n)
U32(n) == <<(n \div Limb) % Limb, n % Limb>>

ToInt(a) == (a[1] * Limb) + a[2]

\* the 32-bit product of two 16-bit numbers, as limbs
Mul16(x, y) ==
    LET p1 == (x \div 256) * y
        p0 == (x % 256) * y
        lo == ((p1 % 256) * 256) + (p0 % Limb)
        hi == (p1 \div 256) + (p0 \div Limb) + (lo \div Limb)
    IN  <<hi, lo % Limb>>

U32Add(a, b) ==
    LET lo == a[2] + b[2]
    IN  <<(a[1] + b[1] + (lo \div Limb)) % Limb, lo % Limb>>

U32Mul(a, b) ==
    LET ll == Mul16(a[2], b[2])
        cross == (Mul16(a[1], b[2])[2] + Mul16(a[2], b[1])[2]) % Limb
    IN  <<(ll[1] + cross) % Limb, ll[2]>>

\* truncating division by a divisor below 2^15
U32Div(a, n) ==
    LET r == a[1] % n
    IN  <<a[1] \div n, ((r * Limb) + a[2]) \div n>>

U32Gt(a, n) == a[1] > 0 \/ a[2] > n

-----------------------------------------------------------------------------
(* The encrypted value library, as the contract uses it *)

NullHandle == [kind |-> "null", val |-> U32(0)]

Input(v) == [kind |-> "input", val |-> v]

asEuint32(n) == [kind |-> "trivial", val |-> U32(n)]

FHEadd(a, b) == [kind |-> "add", val |-> U32Add(a.val, b.val)]

FHEdiv_rounding(a, b) ==
    [kind |-> "div",
     val |-> U32Div(U32Add(a.val, U32(ToInt(b.val) \div 2)), ToInt(b.val))]

FHEdiv(a, b) == [kind |-> "div", val |-> U32Div(a.val, ToInt(b.val))]

FHEmul(a, b) == [kind |-> "mul", val |-> U32Mul(a.val, b.val)]

toBytes32(ct) == ct

-----------------------------------------------------------------------------
(* Storage after construction *)

EmptyModel == [encryptedPrediction |-> NullHandle, isComputed |-> FALSE]

EmptyAlert == [alertLevel |-> "", isRevealed |-> FALSE]

\* a call and its outcome: the arguments, the locals it reached, the revert reason
Call(op, locationId, requestId, proofValid, prediction, alertLevel, err) ==
    [op |-> op, locationId |-> locationId, requestId |-> requestId,
     proofValid |-> proofValid, prediction |-> prediction,
     alertLevel |-> alertLevel, err |-> err]

Event_noLocation(kind, id, locationId) == [kind |-> kind, id |-> id, locationId |-> 0]

Event(kind, id, locationId) == [kind |-> kind, id |-> id, locationId |-> locationId]

emit(e) == events (+) SetToBag({e})

Init ==
    /\ dataCount = 0
    /\ sensorData = <<>>
    /\ propagationModels = [l \in Locations |-> EmptyModel]
    /\ airQualityAlerts = [l \in Locations |-> EmptyAlert]
    /\ locationData = [l \in Locations |-> <<>>]
    /\ requestToDataId = [r \in RequestIds |-> 0]
    /\ decryptionRequests = <<>>
    /\ events = EmptyBag
    /\ last = Call("none", 0, 0, FALSE, U32(0), "", "")

revert(call) ==
    /\ last' = call
    /\ UNCHANGED chain

-----------------------------------------------------------------------------
(* uploadSensorData *)

push_overwrite(locationId, newId) ==
    [locationData EXCEPT ![locationId] = <<newId>>]

push_all(locationId, newId) ==
    [l \in DOMAIN locationData |-> Append(locationData[l], newId)]

\* locationData[locationId].push(newId)
push(locationId, newId) ==
    [locationData EXCEPT ![locationId] = Append(@, newId)]

uploadSensorData(sender, now, encryptedSmokeLevel, encryptedWindSpeed, encryptedWindDirection, locationId) ==
    LET newId == dataCount + 1 IN
        /\ dataCount' = newId
        /\ sensorData' = Append(sensorData,
               [agency |-> sender,
                encryptedSmokeLevel |-> encryptedSmokeLevel,
                encryptedWindSpeed |-> encryptedWindSpeed,
                encryptedWindDirection |-> encryptedWindDirection,
                timestamp |-> now,
                locationId |-> locationId])
        /\ locationData' = push(locationId, newId)
        /\ propagationModels' = [propagationModels EXCEPT ![locationId] =
               [encryptedPrediction |-> asEuint32(0), isComputed |-> FALSE]]
        /\ airQualityAlerts' = [airQualityAlerts EXCEPT ![locationId] =
               [alertLevel |-> "", isRevealed |-> FALSE]]
        /\ events' = emit(Event("DataUploaded", newId, locationId))
        /\ last' = Call("uploadSensorData", locationId, 0, FALSE, U32(0), "", "")
        /\ UNCHANGED <<requestToDataId, decryptionRequests>>

-----------------------------------------------------------------------------
(* computePropagationModel *)

ZeroAverages ==
    [avgSmoke |-> asEuint32(0), avgWindSpeed |-> asEuint32(0),
     avgWindDirection |-> asEuint32(0)]

\* the loop over locationData[locationId][i], i = 0 .. count - 1 (here 1 .. count)
RECURSIVE CalculateAverages(_, _, _, _)
CalculateAverages(ids, i, count, acc) ==
    IF i > count THEN acc
    ELSE LET dataId == ids[i] IN
         CalculateAverages(ids, i + 1, count,
            [avgSmoke |-> FHEadd(acc.avgSmoke, sensorData[dataId].encryptedSmokeLevel),
             avgWindSpeed |-> FHEadd(acc.avgWindSpeed, sensorData[dataId].encryptedWindSpeed),
             avgWindDirection |-> FHEadd(acc.avgWindDirection,
                                         sensorData[dataId].encryptedWindDirection)])

\* FHE.div reverts on a zero divisor; computePropagationModel tests it before the call
ComputeAverages(sums, count) ==
    [avgSmoke |-> FHEdiv(sums.avgSmoke, asEuint32(count)),
     avgWindSpeed |-> FHEdiv(sums.avgWindSpeed, asEuint32(count)),
     avgWindDirection |-> FHEdiv(sums.avgWindDirection, asEuint32(count))]

Prediction_direction(avg) == FHEmul(avg.avgSmoke, avg.avgWindDirection)

\* prediction = smoke * wind speed
Prediction(avg) == FHEmul(avg.avgSmoke, avg.avgWindSpeed)

hasData_dataCount(locationId) == dataCount > 0

\* require(locationData[locationId].length > 0, ...)
hasData(locationId) == Len(locationData[locationId]) > 0

computePropagationModel(locationId) ==
    LET call(err) == Call("computePropagationModel", locationId, 0, FALSE, U32(0), "", err)
        count == Len(locationData[locationId])
    IN
    IF ~hasData(locationId) THEN revert(call("No data for location"))
    ELSE IF ~(~propagationModels[locationId].isComputed) THEN revert(call("Already computed"))
    ELSE IF U32(count) = U32(0) THEN revert(call("Division by zero"))
    ELSE
        LET sums == CalculateAverages(locationData[locationId], 1, count, ZeroAverages)
            avg == ComputeAverages(sums, count)
        IN
        /\ propagationModels' = [propagationModels EXCEPT ![locationId] =
               [encryptedPrediction |-> Prediction(avg), isComputed |-> TRUE]]
        /\ events' = emit(Event("ModelComputed", 0, locationId))
        /\ last' = call("")
        /\ UNCHANGED <<dataCount, sensorData, airQualityAlerts, locationData,
                       requestToDataId, decryptionRequests>>

-----------------------------------------------------------------------------
(* generateAirQualityAlert *)

\* FHE.requestDecryption: the request counter is the id of the new request
requestDecryption(ciphertexts) == Append(decryptionRequests, ciphertexts)

ciphertextsOf_reading(locationId) ==
    <<toBytes32(sensorData[locationData[locationId][1]].encryptedSmokeLevel)>>

\* bytes32[] memory ciphertexts = new bytes32[](1); ciphertexts[0] = ...
ciphertextsOf(locationId) ==
    <<toBytes32(propagationModels[locationId].encryptedPrediction)>>

modelComputed_hasData(locationId) == Len(locationData[locationId]) > 0

\* require(propagationModels[locationId].isComputed, ...)
modelComputed(locationId) == propagationModels[locationId].isComputed

generateAirQualityAlert(locationId) ==
    LET call(reqId, err) == Call("generateAirQualityAlert", locationId, reqId, FALSE, U32(0), "", err)
    IN
    IF ~modelComputed(locationId)
    THEN revert(call(0, "Model not computed"))
    ELSE
        LET ciphertexts == ciphertextsOf(locationId)
            reqId == Len(decryptionRequests)
        IN
        /\ Len(decryptionRequests) < MaxRequests
        /\ decryptionRequests' = requestDecryption(ciphertexts)
        /\ requestToDataId' = [requestToDataId EXCEPT ![reqId] = locationId]
        /\ events' = emit(Event("DecryptionRequested", 0, locationId))
        /\ last' = call(reqId, "")
        /\ UNCHANGED <<dataCount, sensorData, propagationModels, airQualityAlerts,
                       locationData>>

-----------------------------------------------------------------------------
(* generateAlertCallback *)

\* abi.decode(cleartexts, (uint32)): one 32-byte word that fits 32 bits
abiDecodable(cleartexts) == Len(cleartexts) >= 1 /\ cleartexts[1][1] < Limb

abiDecode(cleartexts) == cleartexts[1]

alertLevelOf_inclusive(prediction) ==
    IF U32Gt(prediction, 7999) THEN "Hazardous"
    ELSE IF U32Gt(prediction, 5000) THEN "Very Unhealthy"
    ELSE IF U32Gt(prediction, 3000) THEN "Unhealthy"
    ELSE IF U32Gt(prediction, 1000) THEN "Moderate"
    ELSE "Good"

alertLevelOf(prediction) ==
    IF U32Gt(prediction, 8000) THEN "Hazardous"
    ELSE IF U32Gt(prediction, 5000) THEN "Very Unhealthy"
    ELSE IF U32Gt(prediction, 3000) THEN "Unhealthy"
    ELSE IF U32Gt(prediction, 1000) THEN "Moderate"
    ELSE "Good"

checkSignatures_skipped(requestId, cleartexts, proofValid) == TRUE

\* FHE.checkSignatures: reverts unless the proof verifies
checkSignatures(requestId, cleartexts, proofValid) == proofValid

knownRequest_any(locationId) == TRUE

\* require(locationId != 0, ...)
knownRequest(locationId) == locationId # 0

notRevealed_any(locationId) == TRUE

\* require(!alert.isRevealed, ...)
notRevealed(locationId) == ~airQualityAlerts[locationId].isRevealed

generateAlertCallback_proofFirst(requestId, cleartexts, proofValid) ==
    LET locationId == requestToDataId[requestId]
        call(prediction, level, err) == Call("generateAlertCallback", locationId, requestId,
                                             proofValid, prediction, level, err)
    IN
    IF ~knownRequest(locationId) THEN revert(call(U32(0), "", "Invalid request"))
    ELSE IF ~checkSignatures(requestId, cleartexts, proofValid)
    THEN revert(call(U32(0), "", "checkSignatures"))
    ELSE IF ~notRevealed(locationId)
    THEN revert(call(U32(0), "", "Alert already generated"))
    ELSE IF ~abiDecodable(cleartexts) THEN revert(call(U32(0), "", "abi.decode"))
    ELSE
        LET prediction == abiDecode(cleartexts) IN
        /\ airQualityAlerts' = [airQualityAlerts EXCEPT ![locationId] =
               [alertLevel |-> alertLevelOf(prediction), isRevealed |-> TRUE]]
        /\ events' = emit(Event("AlertGenerated", 0, locationId))
        /\ last' = call(prediction, alertLevelOf(prediction), "")
        /\ UNCHANGED <<dataCount, sensorData, propagationModels, locationData,
                       requestToDataId, decryptionRequests>>

generateAlertCallback(requestId, cleartexts, proofValid) ==
    LET locationId == requestToDataId[requestId]
        call(prediction, level, err) == Call("generateAlertCallback", locationId, requestId,
                                             proofValid, prediction, level, err)
    IN
    IF ~knownRequest(locationId) THEN revert(call(U32(0), "", "Invalid request"))
    ELSE IF ~notRevealed(locationId)
    THEN revert(call(U32(0), "", "Alert already generated"))
    ELSE IF ~checkSignatures(requestId, cleartexts, proofValid)
    THEN revert(call(U32(0), "", "checkSignatures"))
    ELSE IF ~abiDecodable(cleartexts) THEN revert(call(U32(0), "", "abi.decode"))
    ELSE
        LET prediction == abiDecode(cleartexts) IN
        /\ airQualityAlerts' = [airQualityAlerts EXCEPT ![locationId] =
               [alertLevel |-> alertLevelOf(prediction), isRevealed |-> TRUE]]
        /\ events' = emit(Event("AlertGenerated", 0, locationId))
        /\ last' = call(prediction, alertLevelOf(prediction), "")
        /\ UNCHANGED <<dataCount, sensorData, propagationModels, locationData,
                       requestToDataId, decryptionRequests>>

-----------------------------------------------------------------------------
(* The read surface *)

getEncryptedModel(locationId) ==
    IF ~propagationModels[locationId].isComputed
    THEN [err |-> "Not computed", value |-> NullHandle]
    ELSE [err |-> "", value |-> propagationModels[locationId].encryptedPrediction]

getAirQualityAlert_unguarded(locationId) ==
    [err |-> "", value |-> airQualityAlerts[locationId].alertLevel]

getAirQualityAlert(locationId) ==
    IF ~airQualityAlerts[locationId].isRevealed
    THEN [err |-> "Not generated", value |-> ""]
    ELSE [err |-> "", value |-> airQualityAlerts[locationId].alertLevel]

getLocationDataCount(locationId) == Len(locationData[locationId])

-----------------------------------------------------------------------------
(* The callers: agencies, anyone, and the decryption oracle *)

Reading(smoke, windSpeed, windDirection) ==
    [smoke |-> Input(U32(smoke)), windSpeed |-> Input(U32(windSpeed)),
     windDirection |-> Input(U32(windDirection))]

Readings == {Reading(2, 10, 0), Reading(9000, 1, 90)}

\* what an honest oracle returns for a request: the plaintext of its ciphertext
Plaintexts(requestId) ==
    IF requestId < Len(decryptionRequests)
    THEN <<decryptionRequests[requestId + 1][1].val>>
    ELSE <<>>

ForgedCleartexts == {<<U32(1001)>>, <<<<Limb, 0>>>>}

Cleartexts(requestId) == {Plaintexts(requestId)} \cup ForgedCleartexts

Upload ==
    /\ dataCount < MaxData
    /\ \E sender \in Agencies, now \in Timestamps, r \in Readings, l \in Locations :
        uploadSensorData(sender, now, r.smoke, r.windSpeed, r.windDirection, l)

Compute == \E l \in Locations : computePropagationModel(l)

RequestDisclosure == \E l \in Locations : generateAirQualityAlert(l)

Callback ==
    \E r \in RequestIds, proofValid \in BOOLEAN :
        \E c \in Cleartexts(r) : generateAlertCallback(r, c, proofValid)

Next == Upload \/ Compute \/ RequestDisclosure \/ Callback

Spec == Init /\ [][Next]_vars

-----------------------------------------------------------------------------
(* One location, a wider range of readings, an honest oracle *)

ArithLocation == 1

ArithReadings ==
    {Reading(2, 10, 0), Reading(4, 10, 90), Reading(6, 10, 180),
     Reading(9000, 1, 0), Reading(65536, 65536, 0)}

UploadArith ==
    /\ dataCount < MaxArithData
    /\ \E sender \in Agencies, now \in Timestamps, r \in ArithReadings :
        uploadSensorData(sender, now, r.smoke, r.windSpeed, r.windDirection, ArithLocation)

ComputeArith == computePropagationModel(ArithLocation)

RequestArith == generateAirQualityAlert(ArithLocation)

CallbackArith ==
    \E r \in RequestIds :
        /\ r < Len(decryptionRequests)
        /\ generateAlertCallback(r, Plaintexts(r), TRUE)

NextArith == UploadArith \/ ComputeArith \/ RequestArith \/ CallbackArith

SpecArith == Init /\ [][NextArith]_vars

-----------------------------------------------------------------------------
(* Both locations, an oracle that answers recorded requests honestly *)

CallbackHonest ==
    \E r \in RequestIds :
        /\ r < Len(decryptionRequests)
        /\ generateAlertCallback(r, Plaintexts(r), TRUE)

NextHonest == Upload \/ Compute \/ RequestDisclosure \/ CallbackHonest

SpecHonest == Init /\ [][NextHonest]_vars

-----------------------------------------------------------------------------
(* One location, readings whose sums do not divide evenly *)

TruncReadings == {Reading(1, 5, 0), Reading(2, 5, 0), Reading(3, 8, 90)}

UploadTrunc ==
    /\ dataCount < MaxArithData
    /\ \E sender \in Agencies, now \in Timestamps, r \in TruncReadings :
        uploadSensorData(sender, now, r.smoke, r.windSpeed, r.windDirection, ArithLocation)

NextTrunc == UploadTrunc \/ ComputeArith \/ RequestArith \/ CallbackArith

SpecTrunc == Init /\ [][NextTrunc]_vars

-----------------------------------------------------------------------------
(* Two named locations, every request id, valid and invalid proofs *)

PairLocations == {1, 2}

InitPair ==
    /\ dataCount = 0
    /\ sensorData = <<>>
    /\ propagationModels = [l \in Locations \cup PairLocations |-> EmptyModel]
    /\ airQualityAlerts = [l \in Locations \cup PairLocations |-> EmptyAlert]
    /\ locationData = [l \in Locations \cup PairLocations |-> <<>>]
    /\ requestToDataId = [r \in RequestIds |-> 0]
    /\ decryptionRequests = <<>>
    /\ events = EmptyBag
    /\ last = Call("none", 0, 0, FALSE, U32(0), "", "")

UploadPair ==
    /\ dataCount < MaxData
    /\ \E sender \in Agencies, now \in Timestamps, r \in Readings, l \in PairLocations :
        uploadSensorData(sender, now, r.smoke, r.windSpeed, r.windDirection, l)

ComputePair == \E l \in PairLocations : computePropagationModel(l)

RequestPair == \E l \in PairLocations : generateAirQualityAlert(l)

CallbackPair ==
    \E r \in RequestIds, proofValid \in BOOLEAN :
        generateAlertCallback(r, Plaintexts(r), proofValid)

NextPair == UploadPair \/ ComputePair \/ RequestPair \/ CallbackPair

SpecPair == InitPair /\ [][NextPair]_vars

-----------------------------------------------------------------------------
(* Two named locations, readings that differ in wind direction alone *)

DirectionReadings == {Reading(2, 10, 0), Reading(2, 10, 90), Reading(9000, 1, 90)}

UploadDirection ==
    /\ dataCount < MaxData
    /\ \E sender \in Agencies, now \in Timestamps :
        \E r \in DirectionReadings, l \in PairLocations :
            uploadSensorData(sender, now, r.smoke, r.windSpeed, r.windDirection, l)

CallbackDirection ==
    \E r \in RequestIds :
        /\ r < Len(decryptionRequests)
        /\ generateAlertCallback(r, Plaintexts(r), TRUE)

NextDirection == UploadDirection \/ ComputePair \/ RequestPair \/ CallbackDirection

SpecDirection == InitPair /\ [][NextDirection]_vars

-----------------------------------------------------------------------------
(* The classification alone, applied to decoded scalars *)

Scalars ==
    {U32((k * 1000) + d) : k \in 0 .. 9, d \in {0, 1, 2, 500, 999}}
        \cup {U32(65535), <<1, 0>>, <<1, 8001>>, <<32768, 0>>, <<65535, 65535>>}

InitClassify ==
    /\ dataCount = 0
    /\ sensorData = <<>>
    /\ propagationModels = [l \in Locations |-> EmptyModel]
    /\ airQualityAlerts = [l \in Locations |-> EmptyAlert]
    /\ locationData = [l \in Locations |-> <<>>]
    /\ requestToDataId = [r \in RequestIds |-> 0]
    /\ decryptionRequests = <<>>
    /\ events = EmptyBag
    /\ \E v \in Scalars : last = Call("decoded", 0, 0, FALSE, v, "", "")

Classify ==
    /\ last.op = "decoded"
    /\ last' = [last EXCEPT !.op = "alertLevelOf", !.alertLevel = alertLevelOf(last.prediction)]
    /\ UNCHANGED chain

SpecClassify == InitClassify /\ [][Classify]_vars

-----------------------------------------------------------------------------
(* Properties *)

\* the error classes of the specification, by revert reason
ErrorClass(err) ==
    CASE err = "No data for location" -> "InvalidState"
      [] err = "Already computed" -> "InvalidState"
      [] err = "Model not computed" -> "InvalidState"
      [] err = "Invalid request" -> "InvalidRequest"
      [] err = "Alert already generated" -> "AlreadyRevealed"
      [] err = "checkSignatures" -> "AuthenticityError"
      [] OTHER -> err

ModelComputed(l) == Event("ModelComputed", 0, l)

\* the locations the specification admits: a locationId is never zero
NamedLocations == Locations \ {0}

\* C1: isComputed and isRevealed of every location are monotonic: a step never
\* takes either flag from true to false.
C1_FlagsMonotonic ==
    [][\A l \in NamedLocations :
          /\ propagationModels[l].isComputed => propagationModels'[l].isComputed
          /\ airQualityAlerts[l].isRevealed => airQualityAlerts'[l].isRevealed]_vars

\* C2: once a location is computed, no step changes its encryptedPrediction.
C2_PredictionWriteOnce ==
    [][\A l \in NamedLocations :
          propagationModels[l].isComputed =>
              propagationModels'[l].encryptedPrediction
                  = propagationModels[l].encryptedPrediction]_vars

\* C3: a computePropagationModel call on a location for which a ModelComputed
\* event was already emitted fails as already computed and leaves the
\* prediction as it was.
C3_SecondComputeRejected ==
    [][(/\ last'.op = "computePropagationModel"
        /\ last'.locationId \in NamedLocations
        /\ BagIn(ModelComputed(last'.locationId), events))
       => (/\ last'.err = "Already computed"
           /\ propagationModels'[last'.locationId].encryptedPrediction
                  = propagationModels[last'.locationId].encryptedPrediction)]_vars

\* C4: computePropagationModel on a location whose ledger is empty fails with
\* InvalidState (no data) and changes nothing: no model is created.
C4_ComputeEmptyLedger ==
    [][(/\ last'.op = "computePropagationModel"
        /\ Len(locationData[last'.locationId]) = 0)
       => (/\ last'.err = "No data for location"
           /\ ErrorClass(last'.err) = "InvalidState"
           /\ propagationModels'[last'.locationId] = EmptyModel
           /\ UNCHANGED chain)]_vars

C4_Witness ==
    /\ last.op = "computePropagationModel"
    /\ last.err = "No data for location"
    /\ Len(locationData[last.locationId]) = 0
    /\ dataCount > 0
    /\ \E l \in Locations : propagationModels[l].isComputed

Levels == {"Good", "Moderate", "Unhealthy", "Very Unhealthy", "Hazardous"}

Severity(level) ==
    CASE level = "Good" -> 0
      [] level = "Moderate" -> 1
      [] level = "Unhealthy" -> 2
      [] level = "Very Unhealthy" -> 3
      [] level = "Hazardous" -> 4

\* the five bands as ranges of the scalar
InBand(v, level) ==
    CASE level = "Hazardous" -> v[1] > 0 \/ v[2] > 8000
      [] level = "Very Unhealthy" -> v[1] = 0 /\ 5000 < v[2] /\ v[2] <= 8000
      [] level = "Unhealthy" -> v[1] = 0 /\ 3000 < v[2] /\ v[2] <= 5000
      [] level = "Moderate" -> v[1] = 0 /\ 1000 < v[2] /\ v[2] <= 3000
      [] level = "Good" -> v[1] = 0 /\ v[2] <= 1000

U32Le(a, b) == a[1] < b[1] \/ (a[1] = b[1] /\ a[2] <= b[2])

\* C5: the level the code gives a decoded scalar v is the band v lies in,
\* exactly one band holds v, and no smaller scalar gets a more severe level.
C5_ClassificationExact ==
    last.op = "alertLevelOf" =>
        /\ last.alertLevel \in Levels
        /\ InBand(last.prediction, last.alertLevel)
        /\ Cardinality({b \in Levels : InBand(last.prediction, b)}) = 1
        /\ \A w \in Scalars :
              U32Le(w, last.prediction) =>
                  Severity(alertLevelOf(w)) <= Severity(last.alertLevel)

C5_Witness ==
    /\ last.op = "alertLevelOf"
    /\ last.prediction = U32(8000)
    /\ last.alertLevel = "Very Unhealthy"

Issued(r) == r < Len(decryptionRequests)

\* C6: a callback whose requestId no generateAirQualityAlert call recorded
\* is rejected as InvalidRequest and changes no alert record (nor anything else).
C6_UnknownRequestRejected ==
    [][(/\ last'.op = "generateAlertCallback"
        /\ ~Issued(last'.requestId))
       => (/\ ErrorClass(last'.err) = "InvalidRequest"
           /\ airQualityAlerts' = airQualityAlerts
           /\ UNCHANGED chain)]_vars

C6_Witness ==
    /\ last.op = "generateAlertCallback"
    /\ ~Issued(last.requestId)
    /\ last.proofValid
    /\ last.err = "Invalid request"
    /\ \E r \in RequestIds : Issued(r) /\ requestToDataId[r] # 0

\* C7: a callback whose proof fails verification fails and leaves every
\* alert record (isRevealed, alertLevel) as it was.
C7_InvalidProofNeverReveals ==
    [][(/\ last'.op = "generateAlertCallback"
        /\ ~last'.proofValid)
       => (/\ last'.err # ""
           /\ airQualityAlerts' = airQualityAlerts)]_vars

C7_Witness ==
    /\ last.op = "generateAlertCallback"
    /\ ~last.proofValid
    /\ ErrorClass(last.err) = "AuthenticityError"
    /\ Issued(last.requestId)
    /\ ~airQualityAlerts[last.locationId].isRevealed

RequestsOf(l) == {r \in RequestIds : Issued(r) /\ requestToDataId[r] = l}

\* C8: at most one decryption request is ever issued for a location; of two
\* generateAirQualityAlert calls on the same computed location only one succeeds.
C8_OneRequestPerLocation ==
    \A l \in NamedLocations : Cardinality(RequestsOf(l)) <= 1

\* the plaintexts of a location's readings, in ledger order
SmokeLevels(l) ==
    [i \in 1 .. Len(locationData[l]) |->
        sensorData[locationData[l][i]].encryptedSmokeLevel.val]

WindSpeeds(l) ==
    [i \in 1 .. Len(locationData[l]) |->
        sensorData[locationData[l][i]].encryptedWindSpeed.val]

\* the sum as an unbounded integer, and the sum as a uint32
RECURSIVE SumInt(_)
SumInt(seq) == IF seq = <<>> THEN 0 ELSE ToInt(Head(seq)) + SumInt(Tail(seq))

RECURSIVE Sum32(_)
Sum32(seq) == IF seq = <<>> THEN U32(0) ELSE U32Add(Head(seq), Sum32(Tail(seq)))

\* x * y > t over the integers, for x, y >= 0, without forming the product
ProductGt(x, y, t) == x > 0 /\ y > (t \div x)

\* the level of (sum of smoke / N) x (sum of windSpeed / N) over the integers
IntegerLevel(l) ==
    LET n == Len(locationData[l])
        avgSmoke == SumInt(SmokeLevels(l)) \div n
        avgWindSpeed == SumInt(WindSpeeds(l)) \div n
    IN  IF ProductGt(avgSmoke, avgWindSpeed, 8000) THEN "Hazardous"
        ELSE IF ProductGt(avgSmoke, avgWindSpeed, 5000) THEN "Very Unhealthy"
        ELSE IF ProductGt(avgSmoke, avgWindSpeed, 3000) THEN "Unhealthy"
        ELSE IF ProductGt(avgSmoke, avgWindSpeed, 1000) THEN "Moderate"
        ELSE "Good"

\* the same expression in 32-bit arithmetic
WrappedPrediction(l) ==
    LET n == Len(locationData[l])
    IN  U32Mul(U32Div(Sum32(SmokeLevels(l)), n), U32Div(Sum32(WindSpeeds(l)), n))

\* the last call was an accepted callback that carried the plaintext of the
\* prediction of its location, which is computed, and answered a request
\* for that very ciphertext
HonestReveal ==
    /\ last.op = "generateAlertCallback"
    /\ last.err = ""
    /\ propagationModels[last.locationId].isComputed
    /\ decryptionRequests[last.requestId + 1]
           = <<propagationModels[last.locationId].encryptedPrediction>>
    /\ last.prediction = propagationModels[last.locationId].encryptedPrediction.val

\* C9 as stated: after compute, requestDisclosure and an honest callback the
\* alert of L is the level of (sum of smoke / N) x (sum of windSpeed / N),
\* the sums, quotients and product taken over the integers.
C9_IntegerArithmetic ==
    HonestReveal =>
        airQualityAlerts[last.locationId].alertLevel = IntegerLevel(last.locationId)

\* C9 amended: the alert of L is the level of the same expression evaluated
\* in uint32 arithmetic (sums and product modulo 2^32, truncating division);
\* smoke 2,4,6 with wind speed 10,10,10 gives 40 and Good, and the single
\* reading smoke 9000, wind speed 1 gives 9000 and Hazardous.
C9_EndToEnd ==
    HonestReveal =>
        LET l == last.locationId
            alert == airQualityAlerts[l].alertLevel
        IN  /\ last.prediction = WrappedPrediction(l)
            /\ alert \in Levels
            /\ InBand(WrappedPrediction(l), alert)
            /\ (SmokeLevels(l) = <<U32(2), U32(4), U32(6)>>
                    /\ WindSpeeds(l) = <<U32(10), U32(10), U32(10)>>)
                => (last.prediction = U32(40) /\ alert = "Good")
            /\ (SmokeLevels(l) = <<U32(9000)>> /\ WindSpeeds(l) = <<U32(1)>>)
                => (last.prediction = U32(9000) /\ alert = "Hazardous")

C9_Witness ==
    /\ HonestReveal
    /\ SmokeLevels(last.locationId) = <<U32(2), U32(4), U32(6)>>
    /\ WindSpeeds(last.locationId) = <<U32(10), U32(10), U32(10)>>
    /\ airQualityAlerts[last.locationId].alertLevel = "Good"

ReadingCiphertexts ==
    UNION {{sensorData[i].encryptedSmokeLevel, sensorData[i].encryptedWindSpeed,
            sensorData[i].encryptedWindDirection} : i \in 1 .. Len(sensorData)}

\* C10: a successful generateAirQualityAlert(L) sends the oracle one request
\* holding one ciphertext, the encryptedPrediction of L at that moment (a
\* product, never a reading, a sum or an average), and records the new
\* requestId as mapping to L; no other call sends the oracle anything.
C10_OnlyPredictionDisclosed ==
    [][IF last'.op = "generateAirQualityAlert" /\ last'.err = ""
       THEN LET l == last'.locationId
                sent == decryptionRequests'[Len(decryptionRequests')]
            IN  /\ Len(decryptionRequests') = Len(decryptionRequests) + 1
                /\ SubSeq(decryptionRequests', 1, Len(decryptionRequests))
                       = decryptionRequests
                /\ Len(sent) = 1
                /\ sent[1] = propagationModels[l].encryptedPrediction
                /\ sent[1].kind = "mul"
                /\ sent[1] \notin ReadingCiphertexts
                /\ last'.requestId = Len(decryptionRequests)
                /\ requestToDataId' = [requestToDataId EXCEPT ![last'.requestId] = l]
       ELSE decryptionRequests' = decryptionRequests
                /\ requestToDataId' = requestToDataId]_vars

C10_Witness ==
    /\ last.op = "generateAirQualityAlert"
    /\ last.err = ""
    /\ last.requestId = 1
    /\ requestToDataId[1] = last.locationId
    /\ Len(locationData[last.locationId]) >= 2

\* C11: generateAirQualityAlert on a location whose model is not computed
\* fails with InvalidState, sends the oracle nothing, records no request and
\* leaves all state as it was.
C11_DisclosureBeforeCompute ==
    [][(/\ last'.op = "generateAirQualityAlert"
        /\ ~propagationModels[last'.locationId].isComputed)
       => (/\ last'.err = "Model not computed"
           /\ ErrorClass(last'.err) = "InvalidState"
           /\ decryptionRequests' = decryptionRequests
           /\ requestToDataId' = requestToDataId
           /\ UNCHANGED chain)]_vars

C11_Witness ==
    /\ last.op = "generateAirQualityAlert"
    /\ last.err = "Model not computed"
    /\ Len(locationData[last.locationId]) > 0
    /\ ~propagationModels[last.locationId].isComputed

\* C12: an upload to a location that already has readings leaves that
\* location's model (isComputed, encryptedPrediction) and alert (isRevealed,
\* alertLevel) as they were; only the first upload creates them.
C12_LaterUploadKeepsModel ==
    [][(/\ last'.op = "uploadSensorData"
        /\ last'.locationId \in NamedLocations
        /\ Len(locationData[last'.locationId]) > 0)
       => (/\ last'.err = ""
           /\ propagationModels'[last'.locationId] = propagationModels[last'.locationId]
           /\ airQualityAlerts'[last'.locationId] = airQualityAlerts[last'.locationId])]_vars

\* C13: a callback for a recorded request whose location is already revealed
\* is rejected as AlreadyRevealed and changes nothing, whatever it carries.
C13_DuplicateCallbackRejected ==
    [][(/\ last'.op = "generateAlertCallback"
        /\ Issued(last'.requestId)
        /\ airQualityAlerts[requestToDataId[last'.requestId]].isRevealed)
       => (/\ ErrorClass(last'.err) = "AlreadyRevealed"
           /\ airQualityAlerts' = airQualityAlerts
           /\ UNCHANGED chain)]_vars

C13_Witness ==
    /\ last.op = "generateAlertCallback"
    /\ last.err = "Alert already generated"
    /\ last.proofValid
    /\ Issued(last.requestId)
    /\ airQualityAlerts[last.locationId].isRevealed

AlertGenerated(l) == Event("AlertGenerated", 0, l)

\* request r has been consumed by a successful callback: it is the only
\* request ever recorded for its location and an alert was generated there
Consumed(r) ==
    /\ Issued(r)
    /\ RequestsOf(requestToDataId[r]) = {r}
    /\ BagIn(AlertGenerated(requestToDataId[r]), events)

\* C14: a request consumed by a successful callback is never consumed again:
\* a later callback with the same requestId fails and changes no alert
\* record; and a recorded requestId keeps its locationId.
C14_RequestConsumedOnce ==
    [][/\ (last'.op = "generateAlertCallback" /\ Consumed(last'.requestId))
            => (last'.err # "" /\ airQualityAlerts' = airQualityAlerts)
       /\ \A r \in RequestIds :
            Issued(r) => requestToDataId'[r] = requestToDataId[r]]_vars

\* C15: getAirQualityAlert fails exactly when isRevealed is false and
\* otherwise returns one of the five labels; alertLevel is empty while
\* isRevealed is false; getEncryptedModel fails exactly when isComputed is false.
C15_NoPartialState ==
    \A l \in Locations :
        /\ (getAirQualityAlert(l).err = "Not generated") <=> ~airQualityAlerts[l].isRevealed
        /\ getAirQualityAlert(l).err = "" => getAirQualityAlert(l).value \in Levels
        /\ ~airQualityAlerts[l].isRevealed => airQualityAlerts[l].alertLevel = ""
        /\ (getEncryptedModel(l).err = "Not computed") <=> ~propagationModels[l].isComputed
        /\ getEncryptedModel(l).err = ""
               => getEncryptedModel(l).value = propagationModels[l].encryptedPrediction

C15_Witness ==
    \E l, k \in Locations :
        /\ getAirQualityAlert(l).err = "" /\ getAirQualityAlert(l).value = "Moderate"
        /\ getEncryptedModel(k).err = "" /\ getAirQualityAlert(k).err = "Not generated"

\* C16: no stored reading has locationId zero and the ledger of location
\* zero is empty: an upload with locationId zero is rejected.
C16_NoZeroLocation ==
    /\ \A i \in 1 .. Len(sensorData) : sensorData[i].locationId # 0
    /\ getLocationDataCount(0) = 0
    /\ (last.op = "uploadSensorData" /\ last.locationId = 0) => last.err # ""

IsSubSeq(a, b) == Len(a) <= Len(b) /\ SubSeq(b, 1, Len(a)) = a

\* C17: a successful upload to L makes the ledger of L one longer, the new
\* reading identifier coming after all earlier ones; every other step, and
\* an upload to another location, leaves a ledger exactly as it was.
C17_LedgerAppendOnly ==
    [][\A l \in Locations :
          IF last'.op = "uploadSensorData" /\ last'.locationId = l
          THEN /\ last'.err = ""
               /\ locationData'[l] = Append(locationData[l], dataCount')
               /\ \A i \in 1 .. Len(locationData[l]) : locationData[l][i] < dataCount'
               /\ Len(locationData'[l]) = getLocationDataCount(l) + 1
          ELSE /\ locationData'[l] = locationData[l]
               /\ IsSubSeq(locationData[l], locationData'[l])]_vars

C17_Witness ==
    /\ last.op = "uploadSensorData"
    /\ getLocationDataCount(last.locationId) = 2
    /\ locationData[last.locationId] = <<1, 2>>

\* the state of a location in the order NoData, AwaitingComputation,
\* Computed, DisclosureRequested, Revealed
Stage(l) ==
    IF airQualityAlerts[l].isRevealed THEN 4
    ELSE IF propagationModels[l].isComputed /\ RequestsOf(l) # {} THEN 3
    ELSE IF propagationModels[l].isComputed THEN 2
    ELSE IF Len(locationData[l]) > 0 THEN 1
    ELSE 0

RevealedThroughComputed ==
    \A l \in NamedLocations :
        airQualityAlerts[l].isRevealed =>
            (propagationModels[l].isComputed /\ RequestsOf(l) # {})

\* C18: a revealed location is computed and has a recorded request, and no
\* step moves a location back to an earlier state.
C18_ForwardOnly ==
    /\ []RevealedThroughComputed
    /\ [][\A l \in NamedLocations : Stage(l) <= Stage(l)']_vars

\* C19: for a location on which generateAirQualityAlert succeeded and which
\* is not yet revealed, a callback with the returned requestId, the true
\* plaintext and a valid proof succeeds and leaves the location revealed
\* with one of the five labels.
C19_VerifiedCallbackReveals ==
    [][(/\ last'.op = "generateAlertCallback"
        /\ Issued(last'.requestId)
        /\ ~airQualityAlerts[requestToDataId[last'.requestId]].isRevealed)
       => (/\ last'.err = ""
           /\ airQualityAlerts'[requestToDataId[last'.requestId]].isRevealed
           /\ airQualityAlerts'[requestToDataId[last'.requestId]].alertLevel \in Levels)]_vars

\* C20 as stated: the proof is verified before the revealed test: a callback
\* for a recorded request with an invalid proof fails with AuthenticityError
\* even when the location is revealed, and AlreadyRevealed is reported only
\* for callbacks whose proof is valid.
C20_ProofBeforeRevealed ==
    [][last'.op = "generateAlertCallback" =>
          /\ (~last'.proofValid /\ last'.locationId # 0)
                 => ErrorClass(last'.err) = "AuthenticityError"
          /\ ErrorClass(last'.err) = "AlreadyRevealed" => last'.proofValid]_vars

\* C20 amended: the revealed test comes before the proof: a callback for a
\* recorded request of a revealed location fails with AlreadyRevealed whether
\* or not its proof is valid, and a callback with an invalid proof fails with
\* AuthenticityError only when the location is not yet revealed.
C20_RevealedBeforeProof ==
    [][(last'.op = "generateAlertCallback" /\ last'.locationId # 0) =>
          IF airQualityAlerts[last'.locationId].isRevealed
          THEN ErrorClass(last'.err) = "AlreadyRevealed"
          ELSE ~last'.proofValid => ErrorClass(last'.err) = "AuthenticityError"]_vars

C20_Witness ==
    /\ last.op = "generateAlertCallback"
    /\ ~last.proofValid
    /\ last.err = "Alert already generated"
    /\ airQualityAlerts[last.locationId].isRevealed

\* C21: a call addressed to location L (an upload, a compute, a disclosure
\* request, or a callback whose requestId maps to L) leaves the ledger, the
\* model and the alert of every other location as they were.
C21_NoCrossLocationWrite ==
    [][\A l \in DOMAIN locationData :
          l # last'.locationId =>
              /\ locationData'[l] = locationData[l]
              /\ propagationModels'[l] = propagationModels[l]
              /\ airQualityAlerts'[l] = airQualityAlerts[l]]_vars

C21_Witness ==
    /\ last.op = "generateAlertCallback"
    /\ last.err = ""
    /\ \E l \in PairLocations :
          /\ l # last.locationId
          /\ airQualityAlerts[l].isRevealed
          /\ propagationModels[l].isComputed

\* the places (ledger, index) at which reading identifier id is listed
LedgerPlaces(id) ==
    {<<l, k>> \in (DOMAIN locationData) \X (1 .. dataCount) :
        k <= Len(locationData[l]) /\ locationData[l][k] = id}

ReadingsLedgeredOnce ==
    /\ Len(sensorData) = dataCount
    /\ \A l \in DOMAIN locationData : \A k \in 1 .. Len(locationData[l]) :
          locationData[l][k] \in 1 .. dataCount
    /\ \A id \in 1 .. dataCount :
          /\ Cardinality(LedgerPlaces(id)) = 1
          /\ \E k \in 1 .. dataCount : <<sensorData[id].locationId, k>> \in LedgerPlaces(id)

\* C22: reading identifiers are 1 .. dataCount, each is listed exactly once,
\* in the ledger of the locationId stored in the reading; and no step
\* changes or removes a stored reading (contributor, three encrypted
\* values, timestamp, locationId).
C22_ReadingsImmutable ==
    /\ []ReadingsLedgeredOnce
    /\ [][/\ Len(sensorData') >= Len(sensorData)
          /\ \A id \in 1 .. Len(sensorData) : sensorData'[id] = sensorData[id]]_vars

C22_Witness ==
    /\ last.op = "generateAlertCallback"
    /\ last.err = ""
    /\ dataCount = 2
    /\ sensorData[1].locationId # sensorData[2].locationId
    /\ sensorData[1].encryptedSmokeLevel # sensorData[2].encryptedSmokeLevel

\* request r is recorded and its location is not yet revealed
Pending(r) == Issued(r) /\ ~airQualityAlerts[requestToDataId[r]].isRevealed

\* C23: callbacks for pending requests of different locations can be
\* delivered in either order with the same result: a callback with a valid
\* proof for a pending request r1 succeeds, writes the alert of its own
\* location from its own plaintext alone, and leaves every pending request
\* r2 of another location pending, with the plaintext and the alert record
\* it had; so r1 then r2 and r2 then r1 both succeed and end in one state.
C23_CallbacksCommute ==
    [][(/\ last'.op = "generateAlertCallback"
        /\ last'.proofValid
        /\ Pending(last'.requestId)
        /\ \E r2 \in RequestIds :
              Pending(r2) /\ requestToDataId[r2] # requestToDataId[last'.requestId])
       => LET r1 == last'.requestId
              L1 == requestToDataId[r1]
          IN  /\ last'.err = ""
              /\ airQualityAlerts'[L1]
                     = [alertLevel |-> alertLevelOf(Plaintexts(r1)[1]), isRevealed |-> TRUE]
              /\ \A r2 \in RequestIds :
                    (Pending(r2) /\ requestToDataId[r2] # L1) =>
                        /\ Pending(r2)'
                        /\ requestToDataId'[r2] = requestToDataId[r2]
                        /\ Plaintexts(r2)' = Plaintexts(r2)
                        /\ airQualityAlerts'[requestToDataId[r2]]
                               = airQualityAlerts[requestToDataId[r2]]]_vars

WindDirections(l) ==
    [i \in 1 .. Len(locationData[l]) |->
        sensorData[locationData[l][i]].encryptedWindDirection.val]

PredictionOf(l) == propagationModels[l].encryptedPrediction.val

\* two computed locations whose readings agree in smoke and wind speed
SameButDirection(l1, l2) ==
    /\ propagationModels[l1].isComputed /\ propagationModels[l2].isComputed
    /\ SmokeLevels(l1) = SmokeLevels(l2)
    /\ WindSpeeds(l1) = WindSpeeds(l2)

\* C24: the prediction and the alert do not depend on wind direction: the
\* prediction of a computed location is a function of its smoke and wind
\* speed values alone, two locations that agree in those and differ in
\* direction hold the same prediction, the plaintext sent for disclosure
\* is that prediction, and the alert a callback writes is the level of the
\* plaintext of its request.
C24_DirectionIrrelevant ==
    /\ [](\A l \in PairLocations :
            propagationModels[l].isComputed => PredictionOf(l) = WrappedPrediction(l))
    /\ [](\A l1, l2 \in PairLocations :
            SameButDirection(l1, l2) => PredictionOf(l1) = PredictionOf(l2))
    /\ [][(last'.op = "generateAirQualityAlert" /\ last'.err = "")
            => decryptionRequests'[last'.requestId + 1][1].val
                   = WrappedPrediction(last'.locationId)]_vars
    /\ [][(last'.op = "generateAlertCallback" /\ last'.err = "")
            => airQualityAlerts'[last'.locationId].alertLevel
                   = alertLevelOf(Plaintexts(last'.requestId)[1])]_vars

C24_Witness ==
    /\ SameButDirection(1, 2)
    /\ WindDirections(1) # WindDirections(2)
    /\ Len(locationData[1]) = 1
    /\ airQualityAlerts[1].isRevealed /\ airQualityAlerts[2].isRevealed
    /\ airQualityAlerts[1].alertLevel = airQualityAlerts[2].alertLevel

\* q is the quotient of sum by n truncated toward zero, over the integers
TruncatedQuotient(q, sum, n) == q * n <= sum /\ sum < (q + 1) * n

\* the averages the call forms from the ledger of l, as the code forms them
AveragesOf(l) ==
    ComputeAverages(
        CalculateAverages(locationData[l], 1, Len(locationData[l]), ZeroAverages),
        Len(locationData[l]))

\* C25: a successful compute divides each sum by N, the ledger length at the
\* start of the call, N is at least 1, no compute fails on a division by
\* zero, and each quotient is truncated, not rounded: smoke 1,2 gives
\* average smoke 1 and smoke 1,1,2 with wind speed 5,5,5 gives prediction 5.
C25_TruncatingDivision ==
    [][last'.op = "computePropagationModel" =>
          /\ last'.err # "Division by zero"
          /\ last'.err = "" =>
                LET l == last'.locationId
                    N == Len(locationData[l])
                    avg == AveragesOf(l)
                IN  /\ N >= 1
                    /\ TruncatedQuotient(ToInt(avg.avgSmoke.val), SumInt(SmokeLevels(l)), N)
                    /\ TruncatedQuotient(ToInt(avg.avgWindSpeed.val), SumInt(WindSpeeds(l)), N)
                    /\ TruncatedQuotient(ToInt(avg.avgWindDirection.val),
                                         SumInt(WindDirections(l)), N)
                    /\ ToInt(propagationModels'[l].encryptedPrediction.val)
                           = (SumInt(SmokeLevels(l)) \div N) * (SumInt(WindSpeeds(l)) \div N)
                    /\ SmokeLevels(l) = <<U32(1), U32(2)>>
                           => avg.avgSmoke.val = U32(1)
                    /\ (SmokeLevels(l) = <<U32(1), U32(1), U32(2)>>
                            /\ WindSpeeds(l) = <<U32(5), U32(5), U32(5)>>)
                           => propagationModels'[l].encryptedPrediction.val = U32(5)]_vars

C25_Witness ==
    /\ last.op = "computePropagationModel"
    /\ last.err = ""
    /\ SmokeLevels(last.locationId) = <<U32(1), U32(2)>>
    /\ WindSpeeds(last.locationId) = <<U32(5), U32(5)>>
    /\ PredictionOf(last.locationId) = U32(5)

\* the step is a successful call of op whose location is l
SucceededOn(op, l) == last'.op = op /\ last'.err = "" /\ last'.locationId = l

\* C26: isComputed of L becomes true only in a successful compute of L, the
\* alert record of L (isRevealed, alertLevel) is written only in a
\* successful callback for a request of L, and a location for which no
\* compute has succeeded is neither computed nor revealed.
C26_FlagsWrittenByOwnOperation ==
    /\ [][\A l \in NamedLocations :
            /\ (~propagationModels[l].isComputed /\ propagationModels'[l].isComputed)
                   => SucceededOn("computePropagationModel", l)
            /\ airQualityAlerts'[l] # airQualityAlerts[l]
                   => (SucceededOn("generateAlertCallback", l)
                       /\ requestToDataId[last'.requestId] = l)]_vars
    /\ [](\A l \in NamedLocations :
            ~BagIn(ModelComputed(l), events) =>
                (~propagationModels[l].isComputed /\ airQualityAlerts[l] = EmptyAlert))

\* the event kind of each operation
EventKind(op) ==
    CASE op = "uploadSensorData" -> "DataUploaded"
      [] op = "computePropagationModel" -> "ModelComputed"
      [] op = "generateAirQualityAlert" -> "DecryptionRequested"
      [] op = "generateAlertCallback" -> "AlertGenerated"
      [] OTHER -> ""

EventsOf(kind, l) == {e \in BagToSet(events) : e.kind = kind /\ e.locationId = l}

EventOrder ==
    \A l \in DOMAIN locationData :
        /\ EventsOf("AlertGenerated", l) # {} => EventsOf("DecryptionRequested", l) # {}
        /\ EventsOf("DecryptionRequested", l) # {} => EventsOf("ModelComputed", l) # {}
        /\ EventsOf("ModelComputed", l) # {} => EventsOf("DataUploaded", l) # {}

\* C27: a successful upload, compute, disclosure request or callback adds
\* exactly one event, of the kind of the operation and with the locationId
\* it acted on; a failed call adds none; and for every location an
\* AlertGenerated event is logged only when a DecryptionRequested event
\* is, and that only when a ModelComputed event is.
C27_OneEventPerSuccess ==
    /\ [][IF last'.err = ""
          THEN \E e \in BagToSet(events') :
                  /\ e.kind = EventKind(last'.op)
                  /\ e.locationId = last'.locationId
                  /\ events' = events (+) SetToBag({e})
                  /\ BagCardinality(events') = BagCardinality(events) + 1
          ELSE events' = events]_vars
    /\ []EventOrder

C27_Witness ==
    /\ last.err # ""
    /\ \E l \in PairLocations :
          /\ EventsOf("AlertGenerated", l) # {}
          /\ EventsOf("DataUploaded", l) # {}
          /\ CopiesIn(Event("ModelComputed", 0, l), events) = 1
    /\ BagCardinality(events) >= 4

\* C28: with an oracle that returns the plaintext of the ciphertext it was
\* sent, the alert of every revealed location is the level of the plaintext
\* of the prediction the location holds now: no callback publishes the
\* level of a prediction that has since changed.
C28_AlertMatchesCurrentPrediction ==
    \A l \in NamedLocations :
        airQualityAlerts[l].isRevealed =>
            airQualityAlerts[l].alertLevel = alertLevelOf(PredictionOf(l))

====
